---- MODULE Spec2Model ----
(***************************************************************************)
(* A model of src/src/dns/dump_dns.c: dump_dns, dump_dns_sect,             *)
(* dump_dns_rr (with its EDNS0 option walk) and the question-name          *)
(* accessor hostname_from_question / get_query_domain.                     *)
(*                                                                         *)
(* The output FILE is the sequence `trace` of tokens, one token per        *)
(* formatted item the code writes.  A record's rdata is a sequence of      *)
(* bytes; `rd` is the read cursor as an offset from the start of the       *)
(* rdata.  The resolver library (ns_initparse, ns_parserr,                 *)
(* ns_name_uncompress, inet_ntop) is outside the repository: its results   *)
(* are inputs, drawn within the library's contract.                        *)
(***************************************************************************)
EXTENDS Integers, Sequences, FiniteSets, TLC

VARIABLES
    msg,        \* dump_dns: the parsed message (ns_msg) being dumped
    sectIdx,    \* dump_dns: which of the four dump_dns_sect calls is running
    rrnum,      \* dump_dns_sect: loop index
    sep,        \* dump_dns_sect: 0 for "", 1 for endline
    rr,         \* dump_dns_rr: the record (ns_rr) being formatted
    sect,       \* dump_dns_rr: the section of rr
    rd,         \* dump_dns_rr: read cursor, offset from ns_rr_rdata(*rr)
    optlen,     \* dump_dns_rr: u_short remaining-length counter of the OPT walk
    buf,        \* dump_dns_rr: char buf[NS_MAXDNAME], <<>> when buf[0] = '\0'
    readEnd,    \* dump_dns_rr: end offset of the bytes read through rd so far
    trace,      \* the FILE the dump is written on
    pc,         \* position in dump_dns / dump_dns_sect / dump_dns_rr
    ret,        \* where dump_dns_rr returns to
    hostname,   \* hostname_from_question: static char hostname[256]
    hpc,        \* per caller: position in get_query_domain
    hmsg,       \* per caller: the message handed to get_query_domain
    hres,       \* per caller: result / result_len of hostname_from_question
    hret,       \* per caller: what get_query_domain returned
    copied      \* per caller: bytes memcpy wrote from &hostname[0] on

vars == <<msg, sectIdx, rrnum, sep, rr, sect, rd, optlen, buf, readEnd, trace,
          pc, ret, hostname, hpc, hmsg, hres, hret, copied>>

dumpVars == <<msg, sectIdx, rrnum, sep>>
hostVars == <<hostname, hpc, hmsg, hres, hret, copied>>

----------------------------------------------------------------------------
(* Bounds of the model *)

MaxOpts == 2
MaxRR == 2
MaxAfter == 3
MaxRdLen == 22
MaxNameWire == 2

----------------------------------------------------------------------------
(* Program constants *)

ns_t_a == 1
ns_t_ns == 2
ns_t_cname == 5
ns_t_soa == 6
ns_t_ptr == 12
ns_t_mx == 15
ns_t_aaaa == 28
ns_t_opt == 41
ns_t_other == 16

NS_INT16SZ == 2
NS_INT32SZ == 4
HostnameSize == 256

U16(x) == x % 65536
U8(x) == x % 256

Tok(k, v) == [k |-> k, v |-> v]

Min(a, b) == IF a < b THEN a ELSE b

----------------------------------------------------------------------------
(* Byte access through rd *)

\* The byte at offset off from the start of the rdata.  Offsets at or after
\* the rdata's end are the message bytes that follow the record.
ByteAt(r, off) == IF off < Len(r.rdata) THEN r.rdata[off + 1] ELSE 0

MY_GET16(r, off) == ByteAt(r, off) * 256 + ByteAt(r, off + 1)

\* ns_msg_end(*msg) - rd, for rd at offset off of record r's rdata
MsgEndMinus(r, off) == Len(r.rdata) + r.after - off

ns_rr_rdlen(r) == Len(r.rdata)

----------------------------------------------------------------------------
(* dump_dns_rr *)

\* ns_name_uncompress(ns_msg_base, ns_msg_end, rd, buf, sizeof buf): -1, or
\* the number of bytes the name occupies at rd, which the library bounds by
\* the end of the message (not by the end of the rdata).
ns_name_uncompress(r, off) ==
    {-1} \cup (1 .. Min(MaxNameWire, MsgEndMinus(r, off)))

Max(a, b) == IF a > b THEN a ELSE b

\* the switch (type) of dump_dns_rr
TypeCase(type) ==
    CASE type = ns_t_soa -> "soa1"
      [] type = ns_t_a -> "a"
      [] type = ns_t_aaaa -> "aaaa"
      [] type = ns_t_mx -> "mx"
      [] type \in {ns_t_ns, ns_t_ptr, ns_t_cname} -> "name"
      [] type = ns_t_opt -> "opt"
      [] OTHER -> "error"

\* name,class,type and, outside the question section, ttl
RR_Head ==
    /\ pc = "rr"
    /\ buf' = <<>>
    /\ rd' = 0
    /\ readEnd' = 0
    /\ IF sect = "qd"
         THEN /\ trace' = Append(trace, Tok("rrhead", <<rr.name, rr.class, rr.type>>))
              /\ pc' = ret
         ELSE /\ trace' = trace \o <<Tok("rrhead", <<rr.name, rr.class, rr.type>>),
                                     Tok("ttl", <<rr.ttl.hi, rr.ttl.lo>>)>>
              /\ pc' = TypeCase(rr.type)
    /\ UNCHANGED <<rr, sect, optlen, ret, dumpVars, hostVars>>

\* case ns_t_soa: first name
RR_SoaName1 ==
    /\ pc = "soa1"
    /\ \E n \in ns_name_uncompress(rr, rd) :
         IF n < 0
           THEN /\ pc' = "error"
                /\ UNCHANGED <<trace, rd, buf>>
           ELSE /\ buf' = <<Tok("name", <<1>>)>>
                /\ trace' = Append(trace, Tok("soaname", <<1>>))
                /\ rd' = rd + n
                /\ pc' = "soa2"
    /\ UNCHANGED <<rr, sect, optlen, readEnd, ret, dumpVars, hostVars>>

\* case ns_t_soa: second name
RR_SoaName2 ==
    /\ pc = "soa2"
    /\ \E n \in ns_name_uncompress(rr, rd) :
         IF n < 0
           THEN /\ pc' = "error"
                /\ UNCHANGED <<trace, rd, buf>>
           ELSE /\ buf' = <<Tok("name", <<2>>)>>
                /\ trace' = Append(trace, Tok("soaname", <<2>>))
                /\ rd' = rd + n
                /\ pc' = "soa3"
    /\ UNCHANGED <<rr, sect, optlen, readEnd, ret, dumpVars, hostVars>>

\* case ns_t_soa: the five 32-bit fields
RR_SoaNums ==
    /\ pc = "soa3"
    /\ IF MsgEndMinus(rr, rd) < 5 * NS_INT32SZ
         THEN /\ pc' = "error"
              /\ UNCHANGED <<rd, buf, readEnd>>
         ELSE /\ rd' = rd + 5 * NS_INT32SZ
              /\ readEnd' = Max(readEnd, rd + 5 * NS_INT32SZ)
              /\ buf' = <<Tok("soanums", <<>>)>>
              /\ pc' = "tail"
    /\ UNCHANGED <<rr, sect, optlen, trace, ret, dumpVars, hostVars>>

\* case ns_t_a
RR_A ==
    /\ pc = "a"
    /\ IF MsgEndMinus(rr, rd) < 4
         THEN /\ pc' = "error"
              /\ UNCHANGED <<buf, readEnd>>
         ELSE /\ readEnd' = Max(readEnd, rd + 4)
              /\ buf' = <<Tok("inet", <<4>>)>>
              /\ pc' = "tail"
    /\ UNCHANGED <<rr, sect, rd, optlen, trace, ret, dumpVars, hostVars>>

\* case ns_t_aaaa
RR_AAAA ==
    /\ pc = "aaaa"
    /\ IF MsgEndMinus(rr, rd) < 16
         THEN /\ pc' = "error"
              /\ UNCHANGED <<buf, readEnd>>
         ELSE /\ readEnd' = Max(readEnd, rd + 16)
              /\ buf' = <<Tok("inet", <<16>>)>>
              /\ pc' = "tail"
    /\ UNCHANGED <<rr, sect, rd, optlen, trace, ret, dumpVars, hostVars>>

\* case ns_t_mx: the preference, then FALLTHROUGH to the name
RR_MX ==
    /\ pc = "mx"
    /\ IF MsgEndMinus(rr, rd) < 2
         THEN /\ pc' = "error"
              /\ UNCHANGED <<rd, trace, readEnd>>
         ELSE /\ trace' = Append(trace, Tok("mx", <<MY_GET16(rr, rd)>>))
              /\ rd' = rd + NS_INT16SZ
              /\ readEnd' = Max(readEnd, rd + NS_INT16SZ)
              /\ pc' = "name"
    /\ UNCHANGED <<rr, sect, optlen, buf, ret, dumpVars, hostVars>>

\* case ns_t_ns, ns_t_ptr, ns_t_cname (and the target of an MX)
RR_Name ==
    /\ pc = "name"
    /\ \E n \in ns_name_uncompress(rr, rd) :
         IF n < 0
           THEN /\ pc' = "error"
                /\ UNCHANGED buf
           ELSE /\ buf' = <<Tok("name", <<0>>)>>
                /\ pc' = "tail"
    /\ UNCHANGED <<rr, sect, rd, optlen, readEnd, trace, ret, dumpVars, hostVars>>

\* default: and error: sprintf(buf, "[%u]", ns_rr_rdlen(*rr))
RR_Error ==
    /\ pc = "error"
    /\ buf' = <<Tok("fallback", <<ns_rr_rdlen(rr)>>)>>
    /\ pc' = "tail"
    /\ UNCHANGED <<rr, sect, rd, optlen, readEnd, trace, ret, dumpVars, hostVars>>

\* after the switch: if (buf[0] != '\0') { putc(','); fputs(buf) }
RR_Tail ==
    /\ pc = "tail"
    /\ trace' = trace \o buf
    /\ pc' = ret
    /\ UNCHANGED <<rr, sect, rd, optlen, buf, readEnd, ret, dumpVars, hostVars>>

----------------------------------------------------------------------------
(* dump_dns_rr, case ns_t_opt: the EDNS0 header and option walk *)

\* A 32-bit ttl is kept as its two 16-bit halves, [hi |-> bits 31-16,
\* lo |-> bits 15-0].  The sub-fields as the code stores them before printing:
\* u_short edns0version = (ttl & 0x00ff0000) >> 16
edns0version(ttl) == U16(ttl.hi % 256)

\* u_short edns0rcode = (ttl & 0xff000000) >> 24
edns0rcode(ttl) == U16(ttl.hi \div 256)

\* u_char edns0dobit = ttl & 0x8000 ? '1' : '0'
edns0dobit(ttl) == IF ttl.lo \div 32768 # 0 THEN 1 ELSE 0

\* u_char edns0z = ttl & 0x7fff
edns0z(ttl) == U8(ttl.lo % 32768)

\* (a slip: the 4 bytes of afi and masks are not taken off edns0lenopt)
EcsRestKept(lenopt) == U16(lenopt)

\* edns0lenopt -= 4, after afi and the masks of a client-subnet option
EcsRest(lenopt) == U16(lenopt - 4)

\* the test that sends an option to error:
OptOverrun(lenopt, remaining) == lenopt > remaining

\* ",edns0[len=..,UDP=..,ver=..,rcode=..,DO=..,z=..] \\\n\t"
RR_OptHead ==
    /\ pc = "opt"
    /\ optlen' = U16(ns_rr_rdlen(rr))
    /\ trace' = Append(trace,
                  Tok("edns0", <<U16(ns_rr_rdlen(rr)), rr.class, edns0version(rr.ttl),
                                 edns0rcode(rr.ttl), edns0dobit(rr.ttl), edns0z(rr.ttl)>>))
    /\ pc' = "optloop"
    /\ UNCHANGED <<rr, sect, rd, buf, readEnd, ret, dumpVars, hostVars>>

\* the client-subnet text of an option with code 8 whose payload starts at off
EcsTokens(r, off, lenopt) ==
    LET afi == MY_GET16(r, off)
        masks == MY_GET16(r, off + 2)
        srcmask == (masks % 65536) \div 256
        scomask == masks % 256
        ncopy == Min(EcsRest(lenopt), 16)
        fam == IF afi \in {1, 2} THEN afi ELSE 0
    IN  (IF fam = 0 THEN <<Tok("unknownafi", <<afi>>)>> ELSE <<>>)
        \o <<Tok("ecs", <<fam, ncopy, srcmask, scomask>>)>>

\* one iteration of while (optlen >= 4)
RR_OptIter ==
    /\ pc = "optloop"
    /\ optlen >= 4
    /\ LET edns0optcod == MY_GET16(rr, rd)
           edns0lenopt == MY_GET16(rr, rd + 2)
           left == U16(optlen - 4)
           entry == Tok("opt", <<edns0optcod, edns0lenopt>>)
       IN  IF OptOverrun(edns0lenopt, left)
             THEN /\ rd' = rd + 4
                  /\ readEnd' = Max(readEnd, rd + 4)
                  /\ optlen' = left
                  /\ trace' = Append(trace, entry)
                  /\ pc' = "error"
             ELSE IF edns0optcod = 8
               THEN IF edns0lenopt < 4
                      THEN /\ rd' = rd + 4
                           /\ readEnd' = Max(readEnd, rd + 4)
                           /\ optlen' = U16(left - edns0lenopt)
                           /\ trace' = Append(trace, entry)
                           /\ pc' = "error"
                      ELSE /\ rd' = rd + 8 + EcsRest(edns0lenopt)
                           /\ readEnd' = Max(readEnd,
                                   rd + 8 + Min(EcsRest(edns0lenopt), 16))
                           /\ optlen' = U16(left - edns0lenopt)
                           /\ trace' = Append(trace, entry)
                                         \o EcsTokens(rr, rd + 4, edns0lenopt)
                           /\ pc' = "optloop"
               ELSE /\ rd' = rd + 4 + edns0lenopt
                    /\ readEnd' = Max(readEnd, rd + 4)
                    /\ optlen' = U16(left - edns0lenopt)
                    /\ trace' = Append(trace, entry)
                    /\ pc' = "optloop"
    /\ UNCHANGED <<rr, sect, buf, ret, dumpVars, hostVars>>

\* the loop ends (fewer than 4 bytes remain); break
RR_OptEnd ==
    /\ pc = "optloop"
    /\ optlen < 4
    /\ pc' = "tail"
    /\ UNCHANGED <<rr, sect, rd, optlen, buf, readEnd, trace, ret, dumpVars, hostVars>>

NextRR ==
    \/ RR_Head
    \/ RR_SoaName1
    \/ RR_SoaName2
    \/ RR_SoaNums
    \/ RR_A
    \/ RR_AAAA
    \/ RR_MX
    \/ RR_Name
    \/ RR_OptHead
    \/ RR_OptIter
    \/ RR_OptEnd
    \/ RR_Error
    \/ RR_Tail

----------------------------------------------------------------------------
(* The records dump_dns_rr is run on *)

RECURSIVE Flat(_)
Flat(ss) == IF ss = <<>> THEN <<>> ELSE Head(ss) \o Flat(Tail(ss))

Take(s, n) == SubSeq(s, 1, Min(n, Len(s)))

\* The payload of an option: for a client-subnet option, family afi, the
\* two masks and address bytes
OptPayload(afi) == <<0, afi, 24, 0, 192, 0, 2, 0>>

\* The wire form of an option: code, declared length, then the payload bytes
\* the sender really put there (no more than it has)
OptWire(code, declen, afi) ==
    <<code \div 256, code % 256, declen \div 256, declen % 256>>
        \o Take(OptPayload(afi), declen)

OptCodes == {3, 8}
DeclLens == {0, 1, 4, 5, 260}
Afis == {1, 3}

OptWires ==
    {OptWire(c, l, a) : c \in OptCodes, l \in DeclLens, a \in Afis}

RECURSIVE OptSeqs(_)
OptSeqs(k) ==
    IF k = 0 THEN {<<>>}
    ELSE LET shorter == OptSeqs(k - 1)
         IN  shorter \cup {Append(s, w) : s \in shorter, w \in OptWires}

\* every rdata that is a prefix of up to MaxOpts options laid end to end
OptRdatas ==
    UNION { {Take(Flat(s), n) : n \in 0 .. Len(Flat(s))} : s \in OptSeqs(MaxOpts) }

TtlHalves == {0, 1, 255, 256, 513, 32767, 32768, 65535}
TtlVals == {[hi |-> h, lo |-> l] : h \in TtlHalves, l \in TtlHalves}

Zeros(n) == [i \in 1 .. n |-> 0]

OptRecords ==
    {[name |-> 1, class |-> 4096, type |-> ns_t_opt, ttl |-> t, rdata |-> d, after |-> 0] :
        t \in {[hi |-> 0, lo |-> 0]}, d \in OptRdatas}
    \cup
    {[name |-> 1, class |-> 512, type |-> ns_t_opt, ttl |-> t, rdata |-> d, after |-> 0] :
        t \in TtlVals, d \in {<<>>, <<0, 3, 0, 0>>}}

PlainTypes == {ns_t_a, ns_t_aaaa, ns_t_mx, ns_t_soa, ns_t_ns, ns_t_ptr, ns_t_cname, ns_t_other}

PlainRecords ==
    {[name |-> 1, class |-> 1, type |-> ty, ttl |-> [hi |-> 0, lo |-> 60], rdata |-> Zeros(n), after |-> a] :
        ty \in PlainTypes, n \in 0 .. MaxRdLen, a \in 0 .. MaxAfter}

HostIdle ==
    /\ hostname = <<>>
    /\ hpc = <<>>
    /\ hmsg = <<>>
    /\ hres = <<>>
    /\ hret = <<>>
    /\ copied = <<>>

DumpIdle ==
    /\ msg = <<>>
    /\ sectIdx = 0
    /\ rrnum = 0
    /\ sep = 0

InitRR ==
    /\ rr \in OptRecords \cup PlainRecords
    /\ sect \in {"qd", "an"}
    /\ rd = 0
    /\ optlen = 0
    /\ buf = <<>>
    /\ readEnd = 0
    /\ trace = <<>>
    /\ pc = "rr"
    /\ ret = "done"
    /\ DumpIdle
    /\ HostIdle

SpecRR == InitRR /\ [][NextRR]_vars

----------------------------------------------------------------------------
(* Claims about dump_dns_rr, checked under SpecRR *)

\* what a finished record wrote after its name,class,type and ttl
AfterTtl == SubSeq(trace, 3, Len(trace))

Kinds(ts) == {ts[i].k : i \in 1 .. Len(ts)}

RRDone(type) == pc = "done" /\ sect # "qd" /\ rr.type = type

\* Walking the options of rdata d from offset off as the wire format lays
\* them out, some option declares more bytes than follow its 4-byte header.
RECURSIVE SomeOptionOverruns(_, _)
SomeOptionOverruns(d, off) ==
    IF Len(d) - off < 4 THEN FALSE
    ELSE LET declared == d[off + 3] * 256 + d[off + 4]
         IN  IF declared > Len(d) - off - 4 THEN TRUE
             ELSE SomeOptionOverruns(d, off + 4 + declared)

\* C1: an OPT record outside the question section with an option whose
\* declared length exceeds the rdata left after its header renders, after the
\* ttl and the edns0 header, only the fallback [N], N the rdata length: no
\* edns0[code=..,codelen=..] entry is written for it.
C1_OverrunRendersOnlyFallback ==
    (RRDone(ns_t_opt) /\ SomeOptionOverruns(rr.rdata, 0))
        => /\ "opt" \notin Kinds(AfterTtl)
           /\ trace[Len(trace)] = Tok("fallback", <<Len(rr.rdata)>>)

\* the fixed-size field of a type
FixedNeed(type) ==
    CASE type = ns_t_a -> 4
      [] type = ns_t_aaaa -> 16
      [] type = ns_t_mx -> 2
      [] OTHER -> 0

\* C2: decoding an A, AAAA, MX or SOA record outside the question section
\* never reads a fixed-size field past the end of the record's own rdata, and
\* a record whose rdata is shorter than the field renders the fallback [N].
C2_NoReadOutsideRdata ==
    (sect # "qd" /\ rr.type \in {ns_t_a, ns_t_aaaa, ns_t_mx, ns_t_soa})
        => /\ readEnd <= Len(rr.rdata)
           /\ (pc = "done" /\ rr.type # ns_t_soa /\ Len(rr.rdata) < FixedNeed(rr.type))
                 => AfterTtl = <<Tok("fallback", <<Len(rr.rdata)>>)>>

\* C3: the edns0 header of an OPT record reports rcode = ttl bits 31-24,
\* ver = ttl bits 23-16, DO = ttl bit 15 and z = all of ttl bits 14-0.
C3_HeaderReportsTtlFields ==
    \A i \in 1 .. Len(trace) :
        trace[i].k = "edns0"
            => /\ trace[i].v[3] = rr.ttl.hi % 256
               /\ trace[i].v[4] = rr.ttl.hi \div 256
               /\ trace[i].v[5] = rr.ttl.lo \div 32768
               /\ trace[i].v[6] = rr.ttl.lo % 32768

\* the sum of 4 + declared length over the option entries written so far
RECURSIVE OptionBytes(_)
OptionBytes(ts) ==
    IF ts = <<>> THEN 0
    ELSE (IF Head(ts).k = "opt" THEN 4 + Head(ts).v[2] ELSE 0) + OptionBytes(Tail(ts))

\* C5: at the end of every completed iteration of the option walk the cursor's
\* offset from the start of the rdata is the sum of 4 + declared length over
\* the options processed, offset plus the remaining-length counter is the
\* rdata length, and the offset does not exceed the rdata length.
C5_CursorTracksDeclaredLengths ==
    pc = "optloop"
        => /\ rd = OptionBytes(trace)
           /\ rd + optlen = Len(rr.rdata)
           /\ rd <= Len(rr.rdata)

\* C5 witness: a client-subnet option and a later plain option both walked
C5_Witness ==
    /\ pc = "optloop"
    /\ "ecs" \in Kinds(trace)
    /\ trace[Len(trace)].k = "opt"
    /\ trace[Len(trace)].v[1] # 8
    /\ trace[Len(trace)].v[2] > 0
    /\ rd = Len(rr.rdata)

\* C9: a SOA record outside the question section that takes the fallback
\* writes after the ttl only [N], N the rdata length: no mname or rname.
C9_SoaFailureRendersOnlyFallback ==
    (RRDone(ns_t_soa) /\ "fallback" \in Kinds(trace))
        => AfterTtl = <<Tok("fallback", <<Len(rr.rdata)>>)>>

----------------------------------------------------------------------------
(* The records ns_parserr hands to dump_dns_sect *)

\* The records of a message, by position
Catalogue ==
    <<[class |-> 1, type |-> ns_t_other, ttl |-> [hi |-> 0, lo |-> 60],
       rdata |-> <<1, 65>>, after |-> 0],
      [class |-> 4096, type |-> ns_t_opt, ttl |-> [hi |-> 0, lo |-> 32768],
       rdata |-> <<0, 3, 0, 1, 7, 0, 8, 0, 9>>, after |-> 0],
      [class |-> 1, type |-> ns_t_a, ttl |-> [hi |-> 0, lo |-> 60],
       rdata |-> <<192, 0, 2, 1>>, after |-> 0],
      [class |-> 1, type |-> ns_t_a, ttl |-> [hi |-> 0, lo |-> 60],
       rdata |-> <<192, 0>>, after |-> 0],
      [class |-> 1, type |-> ns_t_soa, ttl |-> [hi |-> 0, lo |-> 60],
       rdata |-> <<0, 0>>, after |-> 0],
      [class |-> 1, type |-> ns_t_mx, ttl |-> [hi |-> 0, lo |-> 60],
       rdata |-> <<0, 10, 0>>, after |-> 0],
      [class |-> 4096, type |-> ns_t_opt, ttl |-> [hi |-> 0, lo |-> 32768],
       rdata |-> <<0, 8, 0, 5, 0, 1, 24, 0, 192, 0, 3, 0, 0>>, after |-> 0],
      [class |-> 1, type |-> ns_t_aaaa, ttl |-> [hi |-> 0, lo |-> 60],
       rdata |-> Zeros(16), after |-> 0]>>

WithName(r, nm) ==
    [name |-> nm, class |-> r.class, type |-> r.type, ttl |-> r.ttl,
     rdata |-> r.rdata, after |-> r.after]

\* the record at index i (from 0) of section number idx
RecordAt(idx, i) ==
    WithName(Catalogue[(((idx - 1) * MaxRR + i) % Len(Catalogue)) + 1], idx * 10 + i)

----------------------------------------------------------------------------
(* dump_dns and dump_dns_sect *)

\* the order of the four dump_dns_sect calls of dump_dns
Sections == <<"qd", "an", "ns", "ar">>

\* the order of the FLAG(...) lines of dump_dns
FlagOrder == <<"qr", "aa", "tc", "rd", "ra", "z", "ad", "cd">>

\* the FLAG macro over the flags from position i on; sepc is 0 for "," and
\* 1 for "|"
RECURSIVE FlagTokens(_, _, _)
FlagTokens(flags, i, sepc) ==
    IF i > Len(FlagOrder) THEN <<>>
    ELSE IF FlagOrder[i] \in flags
           THEN <<Tok("flag", <<i, sepc>>)>> \o FlagTokens(flags, i + 1, 1)
           ELSE FlagTokens(flags, i + 1, sepc)

\* (a slip: the failure of ns_initparse is not acted on)
InitparseNeverFails(m) == FALSE

\* ns_initparse(payload, paylen, &msg) < 0
InitparseFails(m) == ~m.ok

\* ns_msg_count(*msg, sect)
ns_msg_count(m, idx) == m.counts[idx]

\* ns_parserr(msg, sect, rrnum, &rr): 0 and the record, or -1.  Which one
\* depends on message bytes only the library reads.
ns_parserr(m, idx, i) == {0, -1}

\* where control goes when dump_dns_sect number idx returns
SectReturn(idx) == IF idx = Len(Sections) THEN "done" ELSE "sect"

\* (a slip: a failing ns_parserr ends the whole dump)
ParserrFailAborts(idx) == "done"

\* the return of dump_dns_sect after a failing ns_parserr
ParserrFailReturn(idx) == SectReturn(idx)

\* (a slip: the loop steps over a record)
RrnumSkip(i) == i + 2

\* rrnum++
RrnumNext(i) == i + 1

\* dump_dns up to its first dump_dns_sect call
D_Start ==
    /\ pc = "dump"
    /\ IF InitparseFails(msg)
         THEN /\ trace' = <<Tok("dns", <<>>), Tok("err", <<>>)>>
              /\ pc' = "done"
              /\ UNCHANGED sectIdx
         ELSE /\ trace' = <<Tok("dns", <<>>),
                            Tok("hdr", <<msg.opcode, msg.rcode, msg.id>>)>>
                              \o FlagTokens(msg.flags, 1, 0)
              /\ sectIdx' = 1
              /\ pc' = "sect"
    /\ UNCHANGED <<msg, rrnum, sep, rr, sect, rd, optlen, buf, readEnd, ret, hostVars>>

\* dump_dns_sect up to its loop
S_Begin ==
    /\ pc = "sect"
    /\ IF ns_msg_count(msg, sectIdx) = 0
         THEN /\ trace' = Append(trace, Tok("count", <<0>>))
              /\ pc' = SectReturn(sectIdx)
              /\ sectIdx' = IF sectIdx = Len(Sections) THEN sectIdx ELSE sectIdx + 1
              /\ UNCHANGED <<rrnum, sep>>
         ELSE /\ trace' = Append(trace, Tok("count", <<ns_msg_count(msg, sectIdx)>>))
              /\ sep' = 0
              /\ rrnum' = 0
              /\ pc' = "sectloop"
              /\ UNCHANGED sectIdx
    /\ UNCHANGED <<msg, rr, sect, rd, optlen, buf, readEnd, ret, hostVars>>

\* the head of one iteration of the loop of dump_dns_sect, up to the call of
\* dump_dns_rr
S_Loop ==
    /\ pc = "sectloop"
    /\ IF rrnum < ns_msg_count(msg, sectIdx)
         THEN \E res \in ns_parserr(msg, sectIdx, rrnum) :
                IF res # 0
                  THEN /\ trace' = Append(trace, Tok("err", <<>>))
                       /\ pc' = ParserrFailReturn(sectIdx)
                       /\ sectIdx' = IF sectIdx = Len(Sections) THEN sectIdx ELSE sectIdx + 1
                       /\ UNCHANGED <<rr, sect, ret>>
                  ELSE /\ trace' = Append(trace, Tok("rrsep", <<sep>>))
                       /\ rr' = RecordAt(sectIdx, rrnum)
                       /\ sect' = Sections[sectIdx]
                       /\ ret' = "sectret"
                       /\ pc' = "rr"
                       /\ UNCHANGED sectIdx
         ELSE /\ pc' = SectReturn(sectIdx)
              /\ sectIdx' = IF sectIdx = Len(Sections) THEN sectIdx ELSE sectIdx + 1
              /\ UNCHANGED <<trace, rr, sect, ret>>
    /\ UNCHANGED <<msg, rrnum, sep, rd, optlen, buf, readEnd, hostVars>>

\* the rest of the iteration, after dump_dns_rr returned: sep = endline; rrnum++
S_AfterRR ==
    /\ pc = "sectret"
    /\ sep' = 1
    /\ rrnum' = RrnumNext(rrnum)
    /\ pc' = "sectloop"
    /\ UNCHANGED <<msg, sectIdx, rr, sect, rd, optlen, buf, readEnd, trace, ret, hostVars>>

Next ==
    \/ D_Start
    \/ S_Begin
    \/ S_Loop
    \/ S_AfterRR
    \/ NextRR

----------------------------------------------------------------------------
(* The messages dump_dns is run on *)

Headers ==
    {[opcode |-> 5, rcode |-> 3, id |-> 9, flags |-> {"qr", "aa", "ra", "cd"}]}

SectIdxs == 1 .. Len(Sections)

\* Every message with up to MaxRR records announced per section; one that
\* fails ns_initparse has no usable counts
Messages ==
    {[ok |-> TRUE, opcode |-> h.opcode, rcode |-> h.rcode, id |-> h.id,
      flags |-> h.flags, counts |-> c] :
        h \in Headers, c \in [SectIdxs -> 0 .. MaxRR]}
    \cup
    {[ok |-> FALSE, opcode |-> h.opcode, rcode |-> h.rcode, id |-> h.id,
      flags |-> h.flags, counts |-> c] :
        h \in Headers, c \in [SectIdxs -> {0, 1}]}

Init ==
    /\ msg \in Messages
    /\ sectIdx = 0
    /\ rrnum = 0
    /\ sep = 0
    /\ rr = RecordAt(1, 0)
    /\ sect = "qd"
    /\ rd = 0
    /\ optlen = 0
    /\ buf = <<>>
    /\ readEnd = 0
    /\ trace = <<>>
    /\ pc = "dump"
    /\ ret = "done"
    /\ HostIdle

Spec == Init /\ [][Next]_vars

----------------------------------------------------------------------------
(* Claims about dump_dns and dump_dns_sect, checked under Spec *)

\* the positions of the section count tokens in the output
CountPos == SelectSeq([j \in 1 .. Len(trace) |-> j], LAMBDA j : trace[j].k = "count")

\* what the i-th dump_dns_sect call wrote: from its count to the next count
Segment(i) ==
    SubSeq(trace, CountPos[i],
           IF i < Len(CountPos) THEN CountPos[i + 1] - 1 ELSE Len(trace))

IsEntry(t) == t.k = "rrhead"

\* the names of the records entered in a segment, in output order
EntryNames(seg) == LET es == SelectSeq(seg, IsEntry) IN [j \in 1 .. Len(es) |-> es[j].v[1]]

\* the names of the first n records of section number i, in wire order
WireNames(i, n) == [j \in 1 .. n |-> RecordAt(i, j - 1).name]

\* C6: for a message that parses and whose record accessor never fails, each
\* section writes its count N and then exactly its N records in index order
\* (a section of 0 records writes only the count 0); a record that took the
\* fallback is one of the N and the records after it still follow.
C6_CountThenAllRecords ==
    (pc = "done" /\ msg.ok /\ "err" \notin Kinds(trace))
        => /\ Len(CountPos) = Len(Sections)
           /\ \A i \in 1 .. Len(CountPos) :
                 /\ Segment(i)[1] = Tok("count", <<msg.counts[i]>>)
                 /\ EntryNames(Segment(i)) = WireNames(i, msg.counts[i])
                 /\ msg.counts[i] = 0 => Len(Segment(i)) = 1

\* C6 witness: a finished dump without accessor failure in which a record
\* took the fallback and the next record of its section followed it
C6_Witness ==
    /\ pc = "done" /\ msg.ok /\ "err" \notin Kinds(trace)
    /\ \E i \in SectIdxs : msg.counts[i] = 0
    /\ \E i \in SectIdxs : msg.counts[i] = MaxRR
    /\ \E j \in 1 .. Len(trace) - 1 : trace[j].k = "fallback" /\ trace[j + 1].k = "rrsep"

\* C7: when the accessor fails at index i of a section, that section has
\* written exactly its i records before, then the error, and nothing after;
\* all four sections are still written, in the order qd, an, ns, ar.
C7_FailureEndsOnlyItsSection ==
    msg.ok
        => /\ \A i \in 1 .. Len(CountPos) :
                 "err" \in Kinds(Segment(i))
                    => LET seg == Segment(i)
                           n == Len(EntryNames(seg))
                       IN  /\ seg[Len(seg)].k = "err"
                           /\ \A j \in 1 .. Len(seg) - 1 : seg[j].k # "err"
                           /\ n < msg.counts[i]
                           /\ EntryNames(seg) = WireNames(i, n)
           /\ Len(CountPos) <= Len(Sections)
           /\ \A i \in 1 .. Len(CountPos) : Segment(i)[1] = Tok("count", <<msg.counts[i]>>)
           /\ pc = "done" => Len(CountPos) = Len(Sections)

\* C7 witness: the accessor failed in an early section after a record, and a
\* later section wrote its records
C7_Witness ==
    /\ pc = "done" /\ msg.ok
    /\ \E i \in 1 .. Len(CountPos) - 1 :
          /\ "err" \in Kinds(Segment(i))
          /\ Len(EntryNames(Segment(i))) >= 1
          /\ \E j \in i + 1 .. Len(CountPos) : Len(EntryNames(Segment(j))) >= 1

\* C8: when the buffer fails the message parse, dump_dns writes the failure
\* description last and nothing of the message: no summary, flag, count, record.
C8_ParseFailureWritesOnlyError ==
    (pc = "done" /\ ~msg.ok)
        => /\ Kinds(trace) \subseteq {"dns", "err"}
           /\ trace[Len(trace)].k = "err"

\* C8 witness: a finished dump of a buffer that failed the parse
C8_Witness ==
    /\ pc = "done" /\ ~msg.ok
    /\ msg.counts[2] = 1
    /\ trace # <<>>

----------------------------------------------------------------------------
(* hostname_from_question and get_query_domain *)

\* the threads that call get_query_domain.  Each library call below is one
\* step; the calls of the two threads interleave between steps.
Callers == {1, 2}

\* strlen of the owner names ns_rr_name can hold (its array is NS_MAXDNAME,
\* 1025, bytes long)
NameLens == {0, 3, 5, 255, 256, 1024}

\* an owner name of n characters in the message of caller t
NameOf(t, n) == [i \in 1 .. n |-> 64 + t]

\* the string at p: the bytes before the first NUL
CStr(bytes) ==
    IF \E i \in 1 .. Len(bytes) : bytes[i] = 0
      THEN SubSeq(bytes, 1, (CHOOSE i \in 1 .. Len(bytes) :
                               /\ bytes[i] = 0
                               /\ \A j \in 1 .. i - 1 : bytes[j] # 0) - 1)
      ELSE bytes

\* memcpy(hostname, result, result_len): the bytes of hostname afterwards
\* (a write past the array's end lands outside it)
MemcpyInto(dst, src, n) ==
    [i \in 1 .. Len(dst) |-> IF i <= n THEN src[i] ELSE dst[i]]

\* get_query_domain up to the call of hostname_from_question
G_Initparse(t) ==
    /\ hpc[t] = "start"
    /\ IF InitparseFails(hmsg[t])
         THEN /\ trace' = Append(trace, Tok("err", <<t>>))
              /\ hret' = [hret EXCEPT ![t] = "NULL"]
              /\ hpc' = [hpc EXCEPT ![t] = "returned"]
         ELSE /\ hpc' = [hpc EXCEPT ![t] = "hfq"]
              /\ UNCHANGED <<trace, hret>>
    /\ UNCHANGED <<hostname, hmsg, hres, copied, dumpVars, rr, sect, rd, optlen, buf,
                   readEnd, pc, ret>>

\* hostname_from_question up to the memset: the count, ns_parserr of the
\* first question, strlen and the length test (which only prints)
H_First(t) ==
    /\ hpc[t] = "hfq"
    /\ IF ns_msg_count(hmsg[t], 1) = 0
         THEN /\ hret' = [hret EXCEPT ![t] = "NULL"]
              /\ hpc' = [hpc EXCEPT ![t] = "returned"]
              /\ UNCHANGED hres
         ELSE \E res \in ns_parserr(hmsg[t], 1, 0) :
                IF res # 0
                  THEN /\ hret' = [hret EXCEPT ![t] = "NULL"]
                       /\ hpc' = [hpc EXCEPT ![t] = "returned"]
                       /\ UNCHANGED hres
                  ELSE /\ hres' = [hres EXCEPT ![t] =
                                     [result |-> Append(hmsg[t].qname, 0),
                                      result_len |-> Len(hmsg[t].qname) + 1]]
                       /\ hpc' = [hpc EXCEPT ![t] = "memset"]
                       /\ UNCHANGED hret
    /\ UNCHANGED <<hostname, hmsg, copied, trace, dumpVars, rr, sect, rd, optlen, buf,
                   readEnd, pc, ret>>

\* memset(hostname, 0, sizeof(hostname))
H_Memset(t) ==
    /\ hpc[t] = "memset"
    /\ hostname' = Zeros(HostnameSize)
    /\ hpc' = [hpc EXCEPT ![t] = "memcpy"]
    /\ UNCHANGED <<hmsg, hres, hret, copied, trace, dumpVars, rr, sect, rd, optlen, buf,
                   readEnd, pc, ret>>

\* memcpy(hostname, result, result_len); return hostname.  A copy longer than
\* the array is undefined: the call may return or the process may die.
H_Memcpy(t) ==
    /\ hpc[t] = "memcpy"
    /\ hostname' = MemcpyInto(hostname, hres[t].result, hres[t].result_len)
    /\ copied' = [copied EXCEPT ![t] = hres[t].result_len]
    /\ \E o \in (IF hres[t].result_len > HostnameSize THEN {"returned", "crashed"}
                 ELSE {"returned"}) :
         hpc' = [hpc EXCEPT ![t] = o]
    /\ hret' = [hret EXCEPT ![t] = "hostname"]
    /\ UNCHANGED <<hmsg, hres, trace, dumpVars, rr, sect, rd, optlen, buf,
                   readEnd, pc, ret>>

NextHost ==
    \E t \in Callers :
        \/ G_Initparse(t)
        \/ H_First(t)
        \/ H_Memset(t)
        \/ H_Memcpy(t)

\* the messages handed to get_query_domain by caller t
HostMessages(t) ==
    {[ok |-> TRUE, counts |-> <<c>>, qname |-> NameOf(t, n)] :
        c \in {0, 1}, n \in NameLens}
    \cup {[ok |-> FALSE, counts |-> <<0>>, qname |-> <<>>]}

InitHost ==
    /\ hostname = Zeros(HostnameSize)
    /\ hpc = [t \in Callers |-> "start"]
    /\ hmsg \in {f \in [Callers -> UNION {HostMessages(t) : t \in Callers}] :
                    \A t \in Callers : f[t] \in HostMessages(t)}
    /\ hres = [t \in Callers |-> [result |-> <<>>, result_len |-> 0]]
    /\ hret = [t \in Callers |-> "none"]
    /\ copied = [t \in Callers |-> 0]
    /\ trace = <<>>
    /\ DumpIdle
    /\ rr = <<>>
    /\ sect = "qd"
    /\ rd = 0
    /\ optlen = 0
    /\ buf = <<>>
    /\ readEnd = 0
    /\ pc = "idle"
    /\ ret = "idle"

SpecHost == InitHost /\ [][NextHost]_vars

----------------------------------------------------------------------------
(* Claims about the question-name accessor, checked under SpecHost *)

\* C4: for any interleaving of two calls on different messages, the name
\* string a call returned is never overwritten or altered by the other call:
\* it stays the first question's owner name of that caller's message.
C4_ReturnedNameIsNotAltered ==
    \A t \in Callers :
        (/\ hpc[t] = "returned"
         /\ hret[t] = "hostname"
         /\ \A u \in Callers : Len(hmsg[u].qname) < HostnameSize)
            => CStr(hostname) = hmsg[t].qname

\* C10: the number of bytes hostname_from_question copies into its 256-byte
\* buffer never exceeds 256, whatever the length of the owner name.
C10_CopyStaysInsideBuffer ==
    \A t \in Callers : copied[t] <= HostnameSize

====
